---- MODULE Spec2Model ----
(***************************************************************************)
(* A model of src/app.py: the upload pipeline (validate, save, classify,   *)
(* insert), the analytics view and the location resolver.                  *)
(*                                                                         *)
(* Text is modelled as a sequence of one-character strings, so that        *)
(* strip, split, lower, join, substring search and float() are computed    *)
(* and can go wrong.  A nullable text (Python None or a str) is a sequence *)
(* of length 0 (None) or 1 (the str).                                      *)
(***************************************************************************)
EXTENDS Integers, Sequences, FiniteSets, TLC

VARIABLES
    model,        \* the module-level classifier: "None" or "YOLO"
    detections,   \* the detections table, rows in insertion (rowid) order
    uploads,      \* names of the files present under UPLOAD_FOLDER
    uuids,        \* how many uuid4 tokens have been drawn so far
    clock,        \* the local clock, in seconds since ClockStart
    request,      \* the request the last handler served
    response,     \* the response the last handler gave
    view,         \* what the last GET /analytics handed to the template
    reqs,         \* the POST /upload requests in flight, step by step
    location_text,\* input of parse_location_to_coords
    coords        \* its result

vars == <<model, detections, uploads, uuids, clock, request, response, view,
          reqs, location_text, coords>>

----------------------------------------------------------------------------
(* Bounds *)

MaxRows == 2
MaxClock == 1
NumReq == 2
MaxLen == 4

----------------------------------------------------------------------------
(* Characters and text *)

\* The printable ASCII characters, code points 32 to 126, in order; the grave
\* accent (96) is written GRAVE.

Ascii ==
    <<" ", "!", "\"", "#", "$", "%", "&", "'", "(", ")", "*", "+", ",", "-",
      ".", "/", "0", "1", "2", "3", "4", "5", "6", "7", "8", "9", ":", ";",
      "<", "=", ">", "?", "@", "A", "B", "C", "D", "E", "F", "G", "H", "I",
      "J", "K", "L", "M", "N", "O", "P", "Q", "R", "S", "T", "U", "V", "W",
      "X", "Y", "Z", "[", "\\", "]", "^", "_", "GRAVE", "a", "b", "c", "d",
      "e",
      "f", "g", "h", "i", "j", "k", "l", "m", "n", "o", "p", "q", "r", "s",
      "t", "u", "v", "w", "x", "y", "z", "{", "|", "}", "~">>

Code == [c \in {Ascii[i] : i \in 1..Len(Ascii)} |->
            31 + CHOOSE i \in 1..Len(Ascii) : Ascii[i] = c]

ord(c) == Code[c]

chr(n) == Ascii[n - 31]

isdigit(c) == ord(c) >= 48 /\ ord(c) <= 57

isupper(c) == ord(c) >= 65 /\ ord(c) <= 90

isalnum(c) == isdigit(c) \/ isupper(c) \/ (ord(c) >= 97 /\ ord(c) <= 122)

ToLower == [c \in DOMAIN Code |-> IF isupper(c) THEN chr(ord(c) + 32) ELSE c]

lower(s) == [i \in 1..Len(s) |-> ToLower[s[i]]]

\* needle in haystack
contains(haystack, needle) ==
    \E i \in 0..(Len(haystack) - Len(needle)) :
        \A j \in 1..Len(needle) : haystack[i + j] = needle[j]

RECURSIVE lstrip(_)
lstrip(s) == IF s # <<>> /\ Head(s) = " " THEN lstrip(Tail(s)) ELSE s

RECURSIVE rstrip(_)
rstrip(s) ==
    IF s # <<>> /\ s[Len(s)] = " " THEN rstrip(SubSeq(s, 1, Len(s) - 1)) ELSE s

strip(s) == rstrip(lstrip(s))

\* str.split(sep) for a one-character sep: always at least one part
RECURSIVE split(_, _)
split(s, sep) ==
    IF \E i \in 1..Len(s) : s[i] = sep
    THEN LET i == CHOOSE k \in 1..Len(s) :
                      s[k] = sep /\ \A j \in 1..(k - 1) : s[j] # sep
         IN  <<SubSeq(s, 1, i - 1)>> \o split(SubSeq(s, i + 1, Len(s)), sep)
    ELSE <<s>>

\* the order of str: by code point, a proper prefix first
RECURSIVE strless(_, _)
strless(a, b) ==
    IF b = <<>> THEN FALSE
    ELSE IF a = <<>> THEN TRUE
    ELSE IF Head(a) # Head(b) THEN ord(Head(a)) < ord(Head(b))
    ELSE strless(Tail(a), Tail(b))

\* sep.join(parts)
RECURSIVE join(_, _)
join(sep, parts) ==
    IF parts = <<>> THEN <<>>
    ELSE IF Len(parts) = 1 THEN parts[1]
    ELSE parts[1] \o sep \o join(sep, Tail(parts))

\* sorted(set of str)
RECURSIVE sorted(_)
sorted(S) ==
    IF S = {} THEN <<>>
    ELSE LET m == CHOOSE x \in S : \A y \in S \ {x} : strless(x, y)
         IN  <<m>> \o sorted(S \ {m})

None == <<>>

Some(s) == <<s>>

\* x or default, for a nullable text x
orElse(x, default) == IF x = None \/ x[1] = <<>> THEN default ELSE x[1]

\* s or None, for a text s
orNone(s) == IF s = <<>> THEN None ELSE Some(s)

----------------------------------------------------------------------------
(* Location resolver *)

\* coordinates are kept in units of 10^-4 degree
Scale == 10 ^ 4

CITY_COORDS == <<343700, 734711>>

RECURSIVE digitsValue(_)
digitsValue(ds) ==
    IF ds = <<>> THEN 0
    ELSE 10 * digitsValue(SubSeq(ds, 1, Len(ds) - 1)) + (ord(ds[Len(ds)]) - 48)

RECURSIVE pow10(_)
pow10(n) == IF n = 0 THEN 1 ELSE 10 * pow10(n - 1)

\* float(s) on plain decimal text: surrounding whitespace is ignored, then
\* [sign] digits [ dot [digits] ]  or  [sign] dot digits.
\* The result is [ok |-> FALSE] where float() raises ValueError.  Values are
\* kept to four decimals; the texts drawn have no longer fraction.
float(s) ==
    LET t    == strip(s)
        neg  == t # <<>> /\ Head(t) = "-"
        u    == IF t # <<>> /\ Head(t) \in {"-", "+"} THEN Tail(t) ELSE t
        dots == {i \in 1..Len(u) : u[i] = "."}
        ip   == IF dots = {} THEN u
                ELSE SubSeq(u, 1, (CHOOSE i \in dots : TRUE) - 1)
        fp   == IF dots = {} THEN <<>>
                ELSE SubSeq(u, (CHOOSE i \in dots : TRUE) + 1, Len(u))
        good == /\ Cardinality(dots) <= 1
                /\ Len(ip) + Len(fp) >= 1
                /\ Len(fp) <= 4
                /\ \A i \in 1..Len(ip) : isdigit(ip[i])
                /\ \A i \in 1..Len(fp) : isdigit(fp[i])
        mag  == digitsValue(ip) * Scale + digitsValue(fp) * pow10(4 - Len(fp))
    IN  IF good THEN [ok |-> TRUE, val |-> IF neg THEN 0 - mag ELSE mag]
        ELSE [ok |-> FALSE, val |-> 0]

muzaffarabad == <<"m", "u", "z", "a", "f", "f", "a", "r", "a", "b", "a", "d">>

azad == <<"a", "z", "a", "d">>

\* a resolver that wants exactly two comma-separated parts
parse_location_two_parts(text) ==
    IF text = None \/ text[1] = <<>> THEN CITY_COORDS
    ELSE LET parts == [i \in 1..Len(split(text[1], ",")) |->
                          strip(split(text[1], ",")[i])]
             numeric == /\ Len(parts) = 2
                        /\ float(parts[1]).ok
                        /\ float(parts[2]).ok
         IN  IF numeric THEN <<float(parts[1]).val, float(parts[2]).val>>
             ELSE CITY_COORDS

parse_location_to_coords(text) ==
    IF text = None \/ text[1] = <<>> THEN CITY_COORDS
    ELSE LET parts == [i \in 1..Len(split(text[1], ",")) |->
                          strip(split(text[1], ",")[i])]
             numeric == /\ Len(parts) >= 2
                        /\ float(parts[1]).ok
                        /\ float(parts[2]).ok
         IN  IF numeric THEN <<float(parts[1]).val, float(parts[2]).val>>
             ELSE IF \/ contains(lower(text[1]), muzaffarabad)
                     \/ contains(lower(text[1]), azad)
                  THEN CITY_COORDS
                  ELSE CITY_COORDS

----------------------------------------------------------------------------
(* Image validator / normaliser *)

UPLOAD_FOLDER == <<"u", "p", "l", "o", "a", "d", "s">>

\* str(uuid.uuid4()): the n-th token drawn; two draws never give the same
\* token
RECURSIVE decimal(_)
decimal(n) ==
    IF n < 10 THEN <<chr(48 + n)>>
    ELSE decimal(n \div 10) \o <<chr(48 + (n % 10))>>

uuid4(n) == <<"u">> \o decimal(n)

replace(s, old, new) == [i \in 1..Len(s) |-> IF s[i] = old THEN new ELSE s[i]]

\* str.split() without argument: the runs of non-blank characters
RECURSIVE words(_)
words(s) ==
    LET t == lstrip(s)
    IN  IF t = <<>> THEN <<>>
        ELSE IF \E i \in 1..Len(t) : t[i] = " "
        THEN LET i == CHOOSE k \in 1..Len(t) :
                          t[k] = " " /\ \A j \in 1..(k - 1) : t[j] # " "
             IN  <<SubSeq(t, 1, i - 1)>> \o words(SubSeq(t, i, Len(t)))
        ELSE <<t>>

RECURSIVE filter_ascii(_)
filter_ascii(s) ==
    IF s = <<>> THEN <<>>
    ELSE IF isalnum(Head(s)) \/ Head(s) \in {"_", ".", "-"}
    THEN <<Head(s)>> \o filter_ascii(Tail(s))
    ELSE filter_ascii(Tail(s))

RECURSIVE strip_chars(_, _)
strip_chars(s, cs) ==
    IF s # <<>> /\ Head(s) \in cs THEN strip_chars(Tail(s), cs)
    ELSE IF s # <<>> /\ s[Len(s)] \in cs
    THEN strip_chars(SubSeq(s, 1, Len(s) - 1), cs)
    ELSE s

\* werkzeug.utils.secure_filename on a POSIX host
secure_filename(name) ==
    strip_chars(filter_ascii(join(<<"_">>, words(replace(name, "/", " ")))),
                {".", "_"})

\* index of the last occurrence of c in s, 0 when there is none
rfind(s, c) ==
    IF \E i \in 1..Len(s) : s[i] = c
    THEN CHOOSE i \in 1..Len(s) : s[i] = c /\ \A j \in (i + 1)..Len(s) : s[j] # c
    ELSE 0

\* os.path.splitext(p)[0]
splitext_root(p) ==
    LET sep == rfind(p, "/")
        dot == rfind(p, ".")
    IN  IF dot > sep /\ \E i \in (sep + 1)..(dot - 1) : p[i] # "."
        THEN SubSeq(p, 1, dot - 1)
        ELSE p

\* os.path.join(a, b) for a relative b
path_join(a, b) == IF b # <<>> /\ Head(b) = "/" THEN b ELSE a \o <<"/">> \o b

\* os.path.basename(p)
basename(p) == SubSeq(p, rfind(p, "/") + 1, Len(p))

jpg == <<"j", "p", "g">>

ext_of(format) ==
    LET fmt       == IF format = <<>> THEN <<"J", "P", "E", "G">> ELSE format
        fmt_lower == lower(fmt)
    IN  IF fmt_lower \in {<<"j", "p", "e", "g">>, <<"j", "f", "i", "f">>}
        THEN jpg ELSE fmt_lower

\* a stored name made of the sanitised original name alone
save_uploaded_image_untokened(file, token) ==
    IF ~file.image THEN [ok |-> FALSE, filepath |-> <<>>]
    ELSE [ok |-> TRUE,
          filepath |-> path_join(UPLOAD_FOLDER,
                           splitext_root(secure_filename(file.filename))
                               \o <<".">> \o ext_of(file.format))]

\* The outcome of save_uploaded_image for an upload whose bytes decode
\* (file.image) or do not, token being the uuid4 drawn for the name:
\* ok = FALSE is the ValueError, otherwise filepath is the file written.
save_uploaded_image(file, token) ==
    IF ~file.image THEN [ok |-> FALSE, filepath |-> <<>>]
    ELSE LET ext       == ext_of(file.format)
             orig_name == secure_filename(
                              IF file.filename = <<>>
                              THEN <<"i", "m", "a", "g", "e">>
                              ELSE file.filename)
             base      == splitext_root(orig_name)
             filename  == token \o <<"_">> \o base \o <<".">> \o ext
         IN  [ok |-> TRUE, filepath |-> path_join(UPLOAD_FOLDER, filename)]

----------------------------------------------------------------------------
(* Detection invoker *)

\* model.names of the loaded classifier: class index -> label
NAMES ==
    [c \in 0..3 |->
        CASE c = 0 -> <<"s", "m", "a", "l", "l">>
          [] c = 1 -> <<"M", "e", "d", "i", "u", "m">>
          [] c = 2 -> <<"l", "a", "r", "g", "e">>
          [] c = 3 -> <<>>]

\* str(cls) of a class tensor
str_cls(c) == <<"t", "e", "n", "s", "o", "r", "(">> \o decimal(c) \o <<".", ")">>

\* names[int(cls)], or str(cls) when the lookup raises
label(names, c) == IF c \in DOMAIN names THEN names[c] ELSE str_cls(c)

\* What one classification does.  error = "call": model(filepath) raises;
\* error = "iter": the results listed are collected and then the iteration
\* raises; error = "none": the results listed are all there is.  A result
\* is None (no boxes) or Some(the sequence res.boxes.cls).
detected_set_of(names, outcome) ==
    IF outcome.error = "call" THEN {}
    ELSE UNION {{label(names, outcome.results[i][1][j]) :
                     j \in 1..Len(outcome.results[i][1])} :
                i \in {k \in 1..Len(outcome.results) : outcome.results[k] # None}}

model_missing ==
    <<"m", "o", "d", "e", "l", "_", "m", "i", "s", "s", "i", "n", "g">>

NoneStr == <<"N", "o", "n", "e">>

\* lines 126-143: the value stored in detected_classes
detected_str_of(mdl, outcome) ==
    LET detected_set == IF mdl # None THEN detected_set_of(mdl[1], outcome)
                        ELSE {model_missing}
    IN  IF detected_set # {} THEN join(<<",", " ">>, sorted(detected_set))
        ELSE NoneStr

----------------------------------------------------------------------------
(* Clock and timestamp *)

\* the local time at clock = 0: year, month, day, hour, minute, second
ClockStart == <<2024, 9, 30, 23, 59, 59>>

isleap(y) == (y % 4 = 0 /\ y % 100 # 0) \/ y % 400 = 0

days_in_month(y, m) ==
    IF m = 2 THEN (IF isleap(y) THEN 29 ELSE 28)
    ELSE IF m \in {4, 6, 9, 11} THEN 30 ELSE 31

RECURSIVE add_days(_, _)
add_days(date, n) ==
    IF n = 0 THEN date
    ELSE IF date[3] < days_in_month(date[1], date[2])
    THEN add_days(<<date[1], date[2], date[3] + 1>>, n - 1)
    ELSE IF date[2] < 12
    THEN add_days(<<date[1], date[2] + 1, 1>>, n - 1)
    ELSE add_days(<<date[1] + 1, 1, 1>>, n - 1)

\* datetime.now() when the clock reads t
now(t) ==
    LET secs == ClockStart[4] * 3600 + ClockStart[5] * 60 + ClockStart[6] + t
        date == add_days(<<ClockStart[1], ClockStart[2], ClockStart[3]>>,
                         secs \div 86400)
        sod  == secs % 86400
    IN  <<date[1], date[2], date[3], sod \div 3600, (sod % 3600) \div 60, sod % 60>>

\* the decimal digits of n, zero-padded to width w
RECURSIVE zeros(_)
zeros(k) == IF k <= 0 THEN <<>> ELSE <<"0">> \o zeros(k - 1)

zpad(n, w) == zeros(w - Len(decimal(n))) \o decimal(n)

\* strftime("%Y-%m-%d %H:%M:%S")
strftime(dt) ==
    zpad(dt[1], 4) \o <<"-">> \o zpad(dt[2], 2) \o <<"-">> \o zpad(dt[3], 2)
    \o <<" ">> \o zpad(dt[4], 2) \o <<":">> \o zpad(dt[5], 2) \o <<":">>
    \o zpad(dt[6], 2)

----------------------------------------------------------------------------
(* Requests *)

PNG == <<"P", "N", "G">>

JPEG == <<"J", "P", "E", "G">>

\* request.files.get("file"): None, or an upload with its filename, whether
\* its bytes decode as an image, and the format they decode to
NoName   == [filename |-> <<>>, image |-> TRUE, format |-> PNG]

TextFile == [filename |-> <<"n", ".", "t", "x", "t">>, image |-> FALSE,
             format |-> <<>>]

PngFile  == [filename |-> <<"a", ".", "p", "n", "g">>, image |-> TRUE,
             format |-> PNG]

JpegFile == [filename |-> <<".", ".", "/", "b", " ", "c", ".", "J", "P", "G">>,
             image |-> TRUE, format |-> JPEG]

Files == {None, Some(NoName), Some(TextFile), Some(JpegFile)}

\* request.form.get("location") and request.form.get("incharge"): None when
\* the field is absent
Forms ==
    {[location |-> None, incharge |-> Some(<<" ">>)],
     [location |-> Some(<<" ", "1", ".", "5", ",", " ", "2", " ">>),
      incharge |-> Some(<<" ", "A", "l", "i">>)]}

NoOutcome == [results |-> <<>>, error |-> "none"]

Outcomes ==
    {[results |-> <<>>, error |-> "call"],
     NoOutcome,
     [results |-> <<None>>, error |-> "none"],
     [results |-> <<Some(<<0>>)>>, error |-> "none"],
     [results |-> <<Some(<<1, 0>>)>>, error |-> "none"],
     [results |-> <<Some(<<2>>), Some(<<2>>)>>, error |-> "none"],
     [results |-> <<Some(<<3>>)>>, error |-> "none"],
     [results |-> <<Some(<<4>>)>>, error |-> "none"],
     [results |-> <<Some(<<0>>)>>, error |-> "iter"]}

\* the form value taken as submitted
form_get_unstripped(value) == IF value = None THEN <<>> ELSE value[1]

\* request.form.get(name, "").strip()
form_get(value) == strip(IF value = None THEN <<>> ELSE value[1])

\* a check that forgets the empty filename
no_file_missing_only(file) == file = None

\* line 117
no_file(file) == file = None \/ file[1].filename = <<>>

\* an INSERT OR REPLACE keyed on the file's original name
insert_replacing(table, row) ==
    LET suffix(r) == SubSeq(r.filename, rfind(r.filename, "_") + 1,
                            Len(r.filename))
    IN  IF \E i \in 1..Len(table) : suffix(table[i]) = suffix(row)
        THEN [i \in 1..Len(table) |->
                 IF suffix(table[i]) = suffix(row) THEN row ELSE table[i]]
        ELSE Append(table, row)

\* lines 146-152: INSERT INTO detections
insert(table, row) == Append(table, row)

\* a row that keeps the whole path of the file
Row_with_path(id, filepath, detected_str, timestamp, location, incharge) ==
    [id               |-> id,
     filename         |-> filepath,
     detected_classes |-> detected_str,
     timestamp        |-> timestamp,
     location         |-> orNone(location),
     incharge         |-> orNone(incharge)]

Row(id, filepath, detected_str, timestamp, location, incharge) ==
    [id               |-> id,
     filename         |-> basename(filepath),
     detected_classes |-> detected_str,
     timestamp        |-> timestamp,
     location         |-> orNone(location),
     incharge         |-> orNone(incharge)]

\* the classifier was not called
Uncalled == [results |-> <<>>, error |-> "uncalled"]

NoRequest == [op |-> "none", file |-> None, location |-> None,
              incharge |-> None, outcome |-> Uncalled]

NoResponse == [status |-> 0, body |-> ""]

NoView == [rendered |-> FALSE, rows |-> <<>>, small_count |-> 0,
           medium_count |-> 0, large_count |-> 0, map_data |-> <<>>]

----------------------------------------------------------------------------
(* Handlers, one request at a time *)

index ==
    /\ request' = [NoRequest EXCEPT !.op = "index"]
    /\ response' = [status |-> 200, body |-> "index.html"]
    /\ view' = NoView
    /\ UNCHANGED <<model, detections, uploads, uuids, clock, reqs,
                   location_text, coords>>

upload(file, location_in, incharge_in, outcome) ==
    LET location == form_get(location_in)
        incharge == form_get(incharge_in)
        saved    == save_uploaded_image(file[1], uuid4(uuids + 1))
        called   == ~no_file(file) /\ saved.ok /\ model # None
    IN  /\ outcome = Uncalled <=> ~called
        /\ request' = [op |-> "upload", file |-> file, location |-> location_in,
                       incharge |-> incharge_in, outcome |-> outcome]
        /\ view' = NoView
        /\ IF no_file(file)
           THEN /\ response' = [status |-> 400, body |-> "No file uploaded."]
                /\ UNCHANGED <<detections, uploads, uuids>>
           ELSE IF ~saved.ok
           THEN /\ response' = [status |-> 400,
                                body |-> "Uploaded file is not a valid image"]
                /\ UNCHANGED <<detections, uploads, uuids>>
           ELSE /\ Len(detections) < MaxRows
                /\ uploads' = uploads \cup {saved.filepath}
                /\ detections' =
                       insert(detections,
                              Row(uuid4(uuids + 2), saved.filepath,
                                  detected_str_of(model, outcome),
                                  strftime(now(clock)), location, incharge))
                /\ uuids' = uuids + 2
                /\ response' = [status |-> 302, body |-> "/analytics"]
        /\ UNCHANGED <<model, clock, reqs, location_text, coords>>

\* ORDER BY timestamp, ascending
list_all_ascending(table) ==
    LET n     == Len(table)
        perms == {p \in [1..n -> 1..n] : \A i, j \in 1..n : i # j => p[i] # p[j]}
    IN  {[i \in 1..n |-> table[p[i]]] :
            p \in {q \in perms :
                      \A i \in 1..(n - 1) :
                          ~strless(table[q[i + 1]].timestamp, table[q[i]].timestamp)}}

\* SELECT ... ORDER BY timestamp DESC: every ordering of the rows in which
\* the timestamps, compared as text, never increase; rows with equal
\* timestamps come in an order the query does not fix
list_all(table) ==
    LET n     == Len(table)
        perms == {p \in [1..n -> 1..n] : \A i, j \in 1..n : i # j => p[i] # p[j]}
    IN  {[i \in 1..n |-> table[p[i]]] :
            p \in {q \in perms :
                      \A i \in 1..(n - 1) :
                          ~strless(table[q[i]].timestamp, table[q[i + 1]].timestamp)}}

small == <<"s", "m", "a", "l", "l">>

medium == <<"m", "e", "d", "i", "u", "m">>

large == <<"l", "a", "r", "g", "e">>

\* the three tests as independent ifs instead of an if/elif chain
analytics_step_independent(acc, r) ==
    LET detected_field == lower(r.detected_classes)
        is_small  == contains(detected_field, small)
        is_medium == contains(detected_field, medium)
        is_large  == contains(detected_field, large)
        color     == IF is_large THEN "#dc3545"
                     ELSE IF is_medium THEN "#ffc107"
                     ELSE IF is_small THEN "#28a745"
                     ELSE "#6c757d"
        coords_   == parse_location_to_coords(Some(orElse(r.location, <<>>)))
    IN  [rendered     |-> TRUE,
         rows         |-> acc.rows,
         small_count  |-> acc.small_count + (IF is_small THEN 1 ELSE 0),
         medium_count |-> acc.medium_count + (IF is_medium THEN 1 ELSE 0),
         large_count  |-> acc.large_count + (IF is_large THEN 1 ELSE 0),
         map_data     |-> Append(acc.map_data,
                                 [id |-> r.id, filename |-> r.filename,
                                  detected |-> r.detected_classes,
                                  timestamp |-> r.timestamp,
                                  location |-> r.location,
                                  incharge |-> r.incharge,
                                  lat |-> coords_[1], lon |-> coords_[2],
                                  color |-> color])]

\* lines 168-192: one pass of the loop over a row r
analytics_step(acc, r) ==
    LET detected_field == lower(r.detected_classes)
        is_small  == contains(detected_field, small)
        is_medium == ~is_small /\ contains(detected_field, medium)
        is_large  == ~is_small /\ ~is_medium /\ contains(detected_field, large)
        color     == IF is_small THEN "#28a745"
                     ELSE IF is_medium THEN "#ffc107"
                     ELSE IF is_large THEN "#dc3545"
                     ELSE "#6c757d"
        coords_   == parse_location_to_coords(Some(orElse(r.location, <<>>)))
    IN  [rendered     |-> TRUE,
         rows         |-> acc.rows,
         small_count  |-> acc.small_count + (IF is_small THEN 1 ELSE 0),
         medium_count |-> acc.medium_count + (IF is_medium THEN 1 ELSE 0),
         large_count  |-> acc.large_count + (IF is_large THEN 1 ELSE 0),
         map_data     |-> Append(acc.map_data,
                                 [id |-> r.id, filename |-> r.filename,
                                  detected |-> r.detected_classes,
                                  timestamp |-> r.timestamp,
                                  location |-> r.location,
                                  incharge |-> r.incharge,
                                  lat |-> coords_[1], lon |-> coords_[2],
                                  color |-> color])]

RECURSIVE analytics_loop(_, _)
analytics_loop(acc, rows) ==
    IF rows = <<>> THEN acc
    ELSE analytics_loop(analytics_step(acc, Head(rows)), Tail(rows))

analytics ==
    /\ \E rows \in list_all(detections) :
           view' = analytics_loop([NoView EXCEPT !.rendered = TRUE, !.rows = rows],
                                  rows)
    /\ request' = [NoRequest EXCEPT !.op = "analytics"]
    /\ response' = [status |-> 200, body |-> "analytics.html"]
    /\ UNCHANGED <<model, detections, uploads, uuids, clock, reqs,
                   location_text, coords>>

\* the local clock advances by one second
Tick ==
    /\ clock < MaxClock
    /\ clock' = clock + 1
    /\ UNCHANGED <<model, detections, uploads, uuids, request, response, view,
                   reqs, location_text, coords>>

Models == {None, Some(NAMES)}

\* a POST /upload that has not arrived yet
IdleReq == [pc |-> "idle", file |-> None, location |-> <<>>, incharge |-> <<>>,
            filepath |-> <<>>, detected_str |-> <<>>, timestamp |-> <<>>,
            status |-> 0]

NoReqs == [i \in 1..NumReq |-> IdleReq]

\* the process has started: init_db() has created an empty table, the upload
\* folder exists, the classifier is loaded or is not
Init ==
    /\ model \in Models
    /\ detections = <<>>
    /\ uploads = {}
    /\ uuids = 0
    /\ clock = 0
    /\ request = NoRequest
    /\ response = NoResponse
    /\ view = NoView
    /\ reqs = NoReqs
    /\ location_text = None
    /\ coords = <<>>

\* what the classifier does in the requests of Spec
SomeOutcomes ==
    {[results |-> <<>>, error |-> "call"],
     [results |-> <<Some(<<1, 0>>)>>, error |-> "none"]}

Upload ==
    \E file \in Files, form \in Forms, o \in SomeOutcomes \cup {Uncalled} :
        upload(file, form.location, form.incharge, o)

Next == index \/ Upload \/ analytics \/ Tick

Spec == Init /\ [][Next]_vars

\* The same handlers, with one fixed upload and everything the classifier
\* can do with it
UploadDetect ==
    \E o \in Outcomes \cup {Uncalled} :
        upload(Some(PngFile), None, Some(<<>>), o)

NextDetect == UploadDetect \/ analytics

SpecDetect == Init /\ [][NextDetect]_vars

----------------------------------------------------------------------------
(* Properties of the handlers *)

\* the step served a request (every other step is a tick of the clock)
Served == clock' = clock /\ vars' # vars

\* the file of an upload request fails validation
Rejects(req) ==
    req.op = "upload" /\ (req.file = None \/ req.file[1].filename = <<>>
                          \/ ~req.file[1].image)

Accepts(req) == req.op = "upload" /\ ~Rejects(req)

LastRow == detections[Len(detections)]

\* C1: an upload whose file field is missing, whose filename is empty or
\* whose bytes are no image is answered 400 and leaves the table and the
\* upload folder as they were, whatever the form fields and the table.
C1_RejectedUploadHasNoEffect ==
    [][(Served /\ Rejects(request')) =>
          /\ response'.status = 400
          /\ detections' = detections
          /\ uploads' = uploads]_vars

C1_Witness ==
    /\ request.op = "upload"
    /\ request.file # None
    /\ request.file[1].filename = <<>>
    /\ request.location # None
    /\ response.status = 400
    /\ detections # <<>>

WellFormedTimestamp(t) ==
    /\ Len(t) = 19
    /\ \A i \in 1..19 :
           IF i \in {5, 8} THEN t[i] = "-"
           ELSE IF i = 11 THEN t[i] = " "
           ELSE IF i \in {14, 17} THEN t[i] = ":"
           ELSE t[i] \in {"0", "1", "2", "3", "4", "5", "6", "7", "8", "9"}

\* the value a form field was submitted with, the empty text when absent
Submitted(value) == IF value = None THEN <<>> ELSE value[1]

\* the text without its leading and trailing blanks, found by position
Trimmed(t) ==
    LET inked == {i \in 1..Len(t) : t[i] # " "}
    IN  IF inked = {} THEN <<>>
        ELSE SubSeq(t, CHOOSE i \in inked : \A j \in inked : i <= j,
                       CHOOSE i \in inked : \A j \in inked : i >= j)

Nullable(t) == IF t = <<>> THEN None ELSE Some(t)

Occurrences(seq, x) == Cardinality({i \in 1..Len(seq) : seq[i] = x})

\* what C5 says of an accepted upload, given how the submitted form values
\* are expected to show in the row
UploadRecorded(expect(_)) ==
    (Served /\ Accepts(request')) =>
        LET r == detections'[Len(detections')]
        IN  /\ response' = [status |-> 302, body |-> "/analytics"]
            /\ Len(detections') = Len(detections) + 1
            /\ \A rows \in list_all(detections') : Occurrences(rows, r) = 1
            /\ r.location = expect(request'.location)
            /\ r.incharge = expect(request'.incharge)
            /\ uploads' \ uploads = {UPLOAD_FOLDER \o <<"/">> \o r.filename}
            /\ WellFormedTimestamp(r.timestamp)

Position(rows, id) == CHOOSE k \in 1..Len(rows) : rows[k].id = id

ListingComplete ==
    /\ Len(view.rows) = Len(detections)
    /\ \A i \in 1..Len(detections) :
           \E k \in 1..Len(view.rows) : view.rows[k] = detections[i]

\* C7 as stated: the listing has every row, and of two records the one
\* created by the later upload never comes after the one created by the
\* earlier upload.
C7_LaterUploadFirst ==
    view.rendered =>
        /\ ListingComplete
        /\ \A i, j \in 1..Len(detections) :
               i < j => Position(view.rows, detections[j].id)
                            < Position(view.rows, detections[i].id)

\* C7, amended: the listing has every row, ordered by timestamp descending:
\* of two records whose timestamps differ, the one created by the later
\* upload comes first; records created within the same second come in
\* either order.
C7_NewestFirst ==
    view.rendered =>
        /\ ListingComplete
        /\ \A i, j \in 1..Len(detections) :
               (i < j /\ detections[i].timestamp # detections[j].timestamp) =>
                   Position(view.rows, detections[j].id)
                       < Position(view.rows, detections[i].id)

C7_Witness ==
    /\ view.rendered
    /\ Len(view.rows) = 2
    /\ detections[1].timestamp # detections[2].timestamp
    /\ view.rows[1] = detections[2]

----------------------------------------------------------------------------
(* Properties of the detection invoker and of the aggregator *)

\* C2: every row ever inserted has a detected_classes that is a non-empty
\* text, whatever the classifier did: the sentinel without a classifier,
\* None for an empty detection set, the joined labels otherwise.
C2_DetectedNeverEmpty ==
    \A i \in 1..Len(detections) : detections[i].detected_classes # <<>>

\* C3: with a classifier configured, a failure in the classifier call or
\* anywhere while the labels are collected leaves the upload with zero
\* detections: it is answered with the redirect and its row holds None.
C3_FailureMeansNoDetections ==
    (/\ Accepts(request)
     /\ model # None
     /\ request.outcome.error \in {"call", "iter"}) =>
        /\ response = [status |-> 302, body |-> "/analytics"]
        /\ LastRow.detected_classes = NoneStr

Green == "#28a745"

Amber == "#ffc107"

Red == "#dc3545"

Gray == "#6c757d"

\* the text has the word somewhere, in any mix of cases
Mentions(text, word) ==
    \E i \in 1..Len(text) :
        /\ i + Len(word) - 1 <= Len(text)
        /\ \A j \in 1..Len(word) :
               text[i + j - 1] = word[j] \/ ToLower[text[i + j - 1]] = word[j]

Colored(c) == {k \in 1..Len(view.map_data) : view.map_data[k].color = c}

----------------------------------------------------------------------------
(* The location resolver on its own *)

LocationAlphabet == {"1", ".", ",", " ", "-", "a"}

LocationExamples ==
    {<<"3", "4", ".", "5", ",", " ", "7", "3", ".", "9">>,
     <<"g", "a", "r", "b", "a", "g", "e", " ", "t", "e", "x", "t">>,
     <<"M", "u", "z", "a", "f", "f", "a", "r", "a", "b", "a", "d">>,
     <<"A", "z", "a", "d", " ", "K", "a", "s", "h", "m", "i", "r">>,
     <<"a", "z", "a", "d", ",", "7">>,
     <<"+", "2", ".", ",", ".", "5", ",", "a", "z", "a", "d">>}

LocationInputs ==
    {None}
    \cup {Some(t) : t \in UNION {[1..n -> LocationAlphabet] : n \in 0..MaxLen}}
    \cup {Some(t) : t \in LocationExamples}

InitLocation ==
    /\ location_text \in LocationInputs
    /\ coords = <<>>
    /\ model = None
    /\ detections = <<>>
    /\ uploads = {}
    /\ uuids = 0
    /\ clock = 0
    /\ request = NoRequest
    /\ response = NoResponse
    /\ view = NoView
    /\ reqs = NoReqs

Resolve ==
    /\ coords = <<>>
    /\ coords' = parse_location_to_coords(location_text)
    /\ UNCHANGED <<model, detections, uploads, uuids, clock, request, response,
                   view, reqs, location_text>>

SpecLocation == InitLocation /\ [][Resolve]_vars

Digits == {"0", "1", "2", "3", "4", "5", "6", "7", "8", "9"}

\* the part of the text before its first comma and the part between its
\* first comma and its second (or the end), when the text has a comma
Commas(t) == {i \in 1..Len(t) : t[i] = ","}

FirstComma(t) == CHOOSE i \in Commas(t) : \A j \in Commas(t) : i <= j

FirstField(t) == SubSeq(t, 1, FirstComma(t) - 1)

SecondField(t) ==
    LET later == Commas(t) \ {FirstComma(t)}
        stop  == IF later = {} THEN Len(t) + 1
                 ELSE CHOOSE i \in later : \A j \in later : i <= j
    IN  SubSeq(t, FirstComma(t) + 1, stop - 1)

Unsigned(t) ==
    LET u == Trimmed(t)
    IN  IF u # <<>> /\ u[1] \in {"+", "-"} THEN SubSeq(u, 2, Len(u)) ELSE u

\* the field is a decimal number: an optional sign, digits with at most one
\* point among them, at least one digit
IsNumber(t) ==
    LET u == Unsigned(t)
    IN  /\ \A i \in 1..Len(u) : u[i] \in Digits \cup {"."}
        /\ Cardinality({i \in 1..Len(u) : u[i] = "."}) <= 1
        /\ \E i \in 1..Len(u) : u[i] \in Digits

\* the number a decimal field denotes, in units of 10^-4, digit by digit
NumberValue(t) ==
    LET u     == Unsigned(t)
        point == IF \E i \in 1..Len(u) : u[i] = "."
                 THEN CHOOSE i \in 1..Len(u) : u[i] = "." ELSE Len(u) + 1
        place(i) == IF i < point THEN 10 ^ (point - 1 - i + 4)
                    ELSE 10 ^ (4 - (i - point))
        digit(i) == CHOOSE d \in 0..9 : Ascii[17 + d] = u[i]
        sum[i \in 0..Len(u)] ==
            IF i = 0 THEN 0
            ELSE IF u[i] = "." THEN sum[i - 1]
            ELSE sum[i - 1] + digit(i) * place(i)
    IN  IF Trimmed(t)[1] = "-" THEN 0 - sum[Len(u)] ELSE sum[Len(u)]

\* C9: the resolver answers every input, null and empty included, with a
\* pair: the default city coordinates, unless the text has at least two
\* comma-separated parts whose first two, trimmed, are numbers, and then
\* exactly those two numbers; naming the city or the region changes nothing.
C9_ResolverTotal ==
    coords # <<>> =>
        /\ coords \in Int \X Int
        /\ coords =
               IF location_text = None \/ location_text[1] = <<>>
                   THEN CITY_COORDS
               ELSE IF /\ Commas(location_text[1]) # {}
                       /\ IsNumber(FirstField(location_text[1]))
                       /\ IsNumber(SecondField(location_text[1]))
                   THEN <<NumberValue(FirstField(location_text[1])),
                          NumberValue(SecondField(location_text[1]))>>
               ELSE CITY_COORDS
        /\ location_text = Some(<<"3", "4", ".", "5", ",", " ", "7", "3",
                                  ".", "9">>) => coords = <<345000, 739000>>
        /\ location_text = Some(<<"a", "z", "a", "d", ",", "7">>) =>
               coords = <<343700, 734711>>

C9_Witness ==
    /\ location_text = Some(<<"+", "2", ".", ",", ".", "5", ",", "a", "z",
                              "a", "d">>)
    /\ coords = <<20000, 5000>>

----------------------------------------------------------------------------
(* POST /upload step by step, several requests at once *)

ConcFiles == {None, Some(TextFile), Some(PngFile)}

ConcForms == {[location |-> Some(<<"1", ",", "2">>), incharge |-> None]}

\* lines 113-118: the request arrives and its file field is looked at
Receive(i) ==
    /\ reqs[i].pc = "idle"
    /\ \E file \in ConcFiles, form \in ConcForms :
           reqs' = [reqs EXCEPT ![i] =
                       [@ EXCEPT !.file = file,
                                 !.location = form_get(form.location),
                                 !.incharge = form_get(form.incharge),
                                 !.pc = IF no_file(file) THEN "done" ELSE "decode",
                                 !.status = IF no_file(file) THEN 400 ELSE 0]]
    /\ UNCHANGED <<model, detections, uploads, uuids, clock, request, response,
                   view, location_text, coords>>

\* lines 61-66 and 120-123: the bytes are decoded and verified
Decode(i) ==
    /\ reqs[i].pc = "decode"
    /\ reqs' = [reqs EXCEPT ![i] =
                   IF save_uploaded_image(reqs[i].file[1], <<>>).ok
                   THEN [@ EXCEPT !.pc = "name"]
                   ELSE [@ EXCEPT !.pc = "done", !.status = 400]]
    /\ UNCHANGED <<model, detections, uploads, uuids, clock, request, response,
                   view, location_text, coords>>

\* lines 68-77: a token is drawn and the path is made
Name(i) ==
    /\ reqs[i].pc = "name"
    /\ uuids' = uuids + 1
    /\ reqs' = [reqs EXCEPT ![i] =
                   [@ EXCEPT !.filepath =
                                 save_uploaded_image(reqs[i].file[1],
                                                     uuid4(uuids + 1)).filepath,
                             !.pc = "write"]]
    /\ UNCHANGED <<model, detections, uploads, clock, request, response, view,
                   location_text, coords>>

\* lines 79-85: the image is written at the path
Write(i) ==
    /\ reqs[i].pc = "write"
    /\ uploads' = uploads \cup {reqs[i].filepath}
    /\ reqs' = [reqs EXCEPT ![i] = [@ EXCEPT !.pc = "classify"]]
    /\ UNCHANGED <<model, detections, uuids, clock, request, response, view,
                   location_text, coords>>

\* lines 126-144: the classifier runs, if there is one, and the time is read
Classify(i) ==
    /\ reqs[i].pc = "classify"
    /\ \E o \in IF model = None THEN {Uncalled} ELSE SomeOutcomes :
           reqs' = [reqs EXCEPT ![i] =
                       [@ EXCEPT !.detected_str = detected_str_of(model, o),
                                 !.timestamp = strftime(now(clock)),
                                 !.pc = "insert"]]
    /\ UNCHANGED <<model, detections, uploads, uuids, clock, request, response,
                   view, location_text, coords>>

\* lines 146-154: the row is inserted in one statement, then the redirect
Insert(i) ==
    /\ reqs[i].pc = "insert"
    /\ uuids' = uuids + 1
    /\ detections' =
           insert(detections,
                  Row(uuid4(uuids + 1), reqs[i].filepath, reqs[i].detected_str,
                      reqs[i].timestamp, reqs[i].location, reqs[i].incharge))
    /\ reqs' = [reqs EXCEPT ![i] = [@ EXCEPT !.pc = "done", !.status = 302]]
    /\ UNCHANGED <<model, uploads, clock, request, response, view,
                   location_text, coords>>

\* lines 146-152: sqlite3 raises, nothing catches it
InsertFails(i) ==
    /\ reqs[i].pc = "insert"
    /\ reqs' = [reqs EXCEPT ![i] = [@ EXCEPT !.pc = "done", !.status = 500]]
    /\ UNCHANGED <<model, detections, uploads, uuids, clock, request, response,
                   view, location_text, coords>>

NextConc ==
    \/ \E i \in 1..NumReq : Receive(i)
    \/ \E i \in 1..NumReq : Decode(i)
    \/ \E i \in 1..NumReq : Name(i)
    \/ \E i \in 1..NumReq : Write(i)
    \/ \E i \in 1..NumReq : Classify(i)
    \/ \E i \in 1..NumReq : Insert(i)

SpecConc == Init /\ [][NextConc]_vars

NextConcFail == NextConc \/ \E i \in 1..NumReq : InsertFails(i)

SpecConcFail == Init /\ [][NextConcFail]_vars

\* the request has a path of its own: it is past the drawing of its token
Named(i) == reqs[i].filepath # <<>>

Written(i) == Named(i) /\ reqs[i].pc \in {"classify", "insert", "done"}

Validated(i) ==
    reqs[i].pc # "idle" /\ ~no_file(reqs[i].file) /\ reqs[i].file[1].image

C10_RowsNameSavedFiles ==
    /\ \A k \in 1..Len(detections) :
           /\ UPLOAD_FOLDER \o <<"/">> \o detections[k].filename \in uploads
           /\ \E i \in 1..NumReq :
                  /\ Written(i)
                  /\ reqs[i].status = 302
                  /\ detections[k].filename
                         = SubSeq(reqs[i].filepath, Len(UPLOAD_FOLDER) + 2,
                                  Len(reqs[i].filepath))
    /\ \A i \in 1..NumReq : reqs[i].status = 302 => reqs[i].filepath \in uploads

C10_Witness ==
    /\ \E i \in 1..NumReq : reqs[i].status = 500 /\ reqs[i].filepath \in uploads
    /\ Len(detections) = 1
    /\ Cardinality(uploads) = 2

====
